---------------------------- MODULE Spec2Model ----------------------------
(***************************************************************************)
(* A model of the registry-based pricing dispatcher of pricer_adapter.py   *)
(* (price_adapter.py is the same adapter with stub backends).              *)
(*                                                                         *)
(* State: the classes that exist (each with its bases and its __mro__),    *)
(* the class-level registry PricerAdapter._registry, the adapter instances *)
(* with their injected backends, and the record of the most recent         *)
(* operation (its inputs, what it called, what it returned or raised).     *)
(***************************************************************************)
EXTENDS Integers, Sequences, FiniteSets, TLC

VARIABLES
    classes,    \* class name -> [bases, mro]: the classes that exist
    registry,   \* PricerAdapter._registry: class name -> handler
    requested,  \* history: class name -> the handler last passed to register
    adapters,   \* the PricerAdapter instances made so far, by number
    made,       \* history: per instance, its constructor's arguments and the
                \* kinds that were registered when it was made
    op,         \* the most recent operation, with its result
    calls       \* thread -> the price call it is in, and how far it is

vars == <<classes, registry, requested, adapters, made, op, calls>>

-----------------------------------------------------------------------------
(* Bounds of the model.                                                    *)

MaxUserKinds == 2      \* classes defined after import
MaxBases     == 2      \* bases named in one class statement
MaxAdapters  == 2      \* adapter instances
MaxThreads   == 2      \* threads that call price

-----------------------------------------------------------------------------
(* Python values.  A number is tagged with its type; a float is held in    *)
(* hundredths, so that float(int) is a conversion and not the identity.    *)

None == [t |-> "NoneType"]
PyInt(n) == [t |-> "int", v |-> n]
PyFloat(c) == [t |-> "float", c |-> c]
PyStr(s) == [t |-> "str", s |-> s]

\* float(x): an int or a float converts, a non-numeric string is a
\* ValueError, None is a TypeError.
FloatOk(x) == x.t \in {"int", "float"}

FloatErr(x) == IF x.t = "str" THEN "ValueError" ELSE "TypeError"

Float(x) == IF x.t = "int" THEN PyFloat(x.v * 100) ELSE x

-----------------------------------------------------------------------------
(* Classes and the method resolution order.                                *)

Object == "object"
IRSTrade == "IRSTrade"
SwaptionTrade == "SwaptionTrade"
CapFloorTrade == "CapFloorTrade"

BuiltinKinds == {IRSTrade, SwaptionTrade, CapFloorTrade}

UserKind(i) == "Trade" \o ToString(i)

UserKinds == {UserKind(i) : i \in 1..MaxUserKinds}

Range(s) == {s[i] : i \in DOMAIN s}

\* The C3 merge of Python's class creation: repeatedly take the first head
\* that is in no other list's tail.  <<"conflict">> marks the TypeError
\* "Cannot create a consistent method resolution order".
RECURSIVE C3Merge(_)
C3Merge(seqs) ==
    LET live == SelectSeq(seqs, LAMBDA s : s # <<>>)
        good(i) == \A j \in DOMAIN live : live[i][1] \notin Range(Tail(live[j]))
        cands == {i \in DOMAIN live : good(i)}
    IN  IF live = <<>> THEN <<>>
        ELSE IF cands = {} THEN <<"conflict">>
        ELSE LET i == CHOOSE c \in cands : \A d \in cands : c <= d
                 h == live[i][1]
                 rest == C3Merge([j \in DOMAIN live |->
                                    IF live[j][1] = h THEN Tail(live[j]) ELSE live[j]])
             IN  IF rest # <<>> /\ rest[Len(rest)] = "conflict"
                 THEN <<"conflict">> ELSE <<h>> \o rest

\* type.__mro__ of a new class named k with the given bases, the bases'
\* own __mro__ being in table cls.
Linearize(cls, k, bs) ==
    <<k>> \o C3Merge([i \in DOMAIN bs |-> cls[bs[i]].mro] \o <<bs>>)

MroOk(m) == m[Len(m)] # "conflict"

\* The table after import: object and the three trade dataclasses.
ImportedClasses ==
    [k \in {Object} \cup BuiltinKinds |->
        IF k = Object THEN [bases |-> <<>>, mro |-> <<Object>>]
        ELSE [bases |-> <<Object>>, mro |-> <<k, Object>>]]


-----------------------------------------------------------------------------
(* Mappings (dict, Mapping): a function from keys to values.               *)

EmptyMap == <<>>

\* dict.get(key, default)
Get(map, key, default) == IF key \in DOMAIN map THEN map[key] ELSE default

\* dict.setdefault(key, value): the first value stored for a key stays.
PutIfAbsent(map, key, value) ==
    [x \in DOMAIN map \cup {key} |-> IF x \in DOMAIN map THEN map[x] ELSE value]

\* dict[key] = value
Put(map, key, value) ==
    [x \in DOMAIN map \cup {key} |-> IF x = key THEN value ELSE map[x]]

-----------------------------------------------------------------------------
(* The pricing libraries.  Notionals are held in thousands, rates in       *)
(* thousandths, volatilities in hundredths, annuity and scale in tenths,   *)
(* dates as day numbers; a float result is held in hundredths, rounded     *)
(* down.                                                                   *)

Max(x, y) == IF x >= y THEN x ELSE y

\* price_swap(notional, fixed_rate, start, end, curve)
price_swap(args) ==
    LET notional == args[1]
        fixed_rate == args[2]
        days == Max(args[4] - args[3], 0)
        par_rate == Get(args[5], "par_rate", fixed_rate)
    IN  PyFloat((notional * (fixed_rate - par_rate) * days * 100) \div 365)

\* swaption_pv(trade_dict, market_data)
swaption_pv(args) ==
    LET notional == Get(args[1], "notional", 0)
        annuity == Get(args[1], "annuity", 10)
        implied_vol == Get(args[2], "implied_vol", 0)
    IN  PyFloat(notional * annuity * implied_vol * 100)

\* CapFloorPricer.price(cap, curve, vol_surface, **kwargs)
CapFloorPricer_price(args, kwargs) ==
    LET notional == Get(args[1], "notional", 1)
        strike == Get(args[1], "strike", 0)
        forward == Get(args[2], "forward", strike)
        atm_vol == Get(args[3], "atm_vol", 0)
        scale == Get(kwargs, "scale", 10)
        intrinsic == Max(forward - strike, 0)
    IN  PyFloat((intrinsic * notional * atm_vol * scale) \div 10)

\* The backends an adapter can hold.  A default is one of the library
\* entry points; a spy is a caller's own backend, which records nothing
\* here (the call record does) and answers a fixed value.  truthy is what
\* bool(backend) gives: a function is true, an object is false when it
\* defines __bool__ or __len__ so.
Backend(name, truthy, owner) == [name |-> name, truthy |-> truthy, owner |-> owner]

DefaultSwap == Backend("price_swap", TRUE, 0)
DefaultSwaption == Backend("swaption_pv", TRUE, 0)
NewCapFloorPricer(owner) == Backend("CapFloorPricer", TRUE, owner)

SpySwap(owner) == Backend("spy_swap", TRUE, owner)
SpySwaption(owner) == Backend("spy_swaption", TRUE, owner)
SpyCapFloor(owner) == Backend("spy_capfloor", TRUE, owner)
EmptySpyCapFloor(owner) == Backend("empty_spy_capfloor", FALSE, owner)

\* What a call of backend b answers.
BackendResult(b, args, kwargs) ==
    CASE b.name = "price_swap" -> price_swap(args)
      [] b.name = "swaption_pv" -> swaption_pv(args)
      [] b.name = "CapFloorPricer" -> CapFloorPricer_price(args, kwargs)
      [] b.name = "spy_swap" -> PyFloat(10125)
      [] b.name = "spy_swaption" -> PyInt(250000)
      [] b.name = "spy_capfloor" -> PyFloat(4250050)
      [] OTHER -> PyInt(7)

BackendCall(b, args, kwargs) == [backend |-> b, args |-> args, kwargs |-> kwargs]

-----------------------------------------------------------------------------
(* Trades and market states (frozen dataclasses).                          *)

\* One instance of each class.  A subclass of IRSTrade has IRSTrade's
\* fields; a class of its own has one field of its own.
IRSFields ==
    [notional |-> 1000, fixed_rate |-> 32, start |-> 0, end |-> 1826,
     curve_id |-> "usd_ois"]

SwaptionFields ==
    [trade_dict |-> [notional |-> 5000, annuity |-> 41, strike |-> 28]]

CapFloorFields(kwargs) ==
    [cap |-> [strike |-> 30, notional |-> 2000],
     curve_id |-> "usd_3m", vol_surface_id |-> "usd_3m_caps", kwargs |-> kwargs]

TradeOf(cls, k) ==
    [kind |-> k,
     attrs |-> IF IRSTrade \in Range(cls[k].mro) THEN IRSFields
               ELSE IF k = SwaptionTrade THEN SwaptionFields
               ELSE IF k = CapFloorTrade THEN CapFloorFields([scale |-> 12])
               ELSE [descriptor |-> "snowball"]]

\* type(trade)
TypeOf(trade) == trade.kind

AllCurves == [usd_ois |-> [par_rate |-> 30], usd_3m |-> [forward |-> 31]]
AllSurfaces == [usd_3m_caps |-> [atm_vol |-> 19]]
MarketData == [implied_vol |-> 22]

MarketState(curves, market_data, vol_surfaces) ==
    [curves |-> curves, market_data |-> market_data, vol_surfaces |-> vol_surfaces]

FullMarket == MarketState(AllCurves, MarketData, AllSurfaces)
EmptyMarket == MarketState(EmptyMap, EmptyMap, EmptyMap)

Markets ==
    {MarketState(c, d, v) : c \in {EmptyMap, AllCurves}, d \in {MarketData},
                            v \in {EmptyMap, AllSurfaces}}
      \cup {EmptyMarket}

-----------------------------------------------------------------------------
(* Handlers.                                                               *)

Function(name) == [t |-> "function", name |-> name]

Returned(value, called) ==
    [status |-> "return", value |-> value, exc |-> None, backends |-> called]

Raised(type, arg, called) ==
    [status |-> "raise", value |-> None, exc |-> [type |-> type, arg |-> arg],
     backends |-> called]

\* _price_irs(adapter, trade, market_state)
price_irs(adapter, trade, market_state) ==
    LET t == trade.attrs IN
    IF "curve_id" \notin DOMAIN t THEN Raised("AttributeError", "curve_id", <<>>)
    ELSE IF t.curve_id \notin DOMAIN market_state.curves
    THEN Raised("KeyError", t.curve_id, <<>>)
    ELSE LET curve == market_state.curves[t.curve_id]
             args == <<t.notional, t.fixed_rate, t.start, t.end, curve>>
         IN  Returned(BackendResult(adapter.swap_pricer, args, EmptyMap),
                      <<BackendCall(adapter.swap_pricer, args, EmptyMap)>>)

\* _price_swaption(adapter, trade, market_state)
price_swaption(adapter, trade, market_state) ==
    LET t == trade.attrs IN
    IF "trade_dict" \notin DOMAIN t THEN Raised("AttributeError", "trade_dict", <<>>)
    ELSE LET args == <<t.trade_dict, market_state.market_data>>
         IN  Returned(BackendResult(adapter.swaption_pricer, args, EmptyMap),
                      <<BackendCall(adapter.swaption_pricer, args, EmptyMap)>>)

\* The cap/floor handler with the surface looked up before the curve.
price_capfloor_surface_first(adapter, trade, market_state) ==
    LET t == trade.attrs IN
    IF t.vol_surface_id \notin DOMAIN market_state.vol_surfaces
    THEN Raised("KeyError", t.vol_surface_id, <<>>)
    ELSE IF t.curve_id \notin DOMAIN market_state.curves
    THEN Raised("KeyError", t.curve_id, <<>>)
    ELSE LET curve == market_state.curves[t.curve_id]
             vol_surface == market_state.vol_surfaces[t.vol_surface_id]
             args == <<t.cap, curve, vol_surface>>
         IN  Returned(BackendResult(adapter.capfloor_pricer, args, t.kwargs),
                      <<BackendCall(adapter.capfloor_pricer, args, t.kwargs)>>)

\* _price_capfloor(adapter, trade, market_state)
price_capfloor(adapter, trade, market_state) ==
    LET t == trade.attrs IN
    IF "vol_surface_id" \notin DOMAIN t
    THEN Raised("AttributeError", "curve_id", <<>>)
    ELSE IF t.curve_id \notin DOMAIN market_state.curves
    THEN Raised("KeyError", t.curve_id, <<>>)
    ELSE IF t.vol_surface_id \notin DOMAIN market_state.vol_surfaces
    THEN Raised("KeyError", t.vol_surface_id, <<>>)
    ELSE LET curve == market_state.curves[t.curve_id]
             vol_surface == market_state.vol_surfaces[t.vol_surface_id]
             args == <<t.cap, curve, vol_surface>>
         IN  Returned(BackendResult(adapter.capfloor_pricer, args, t.kwargs),
                      <<BackendCall(adapter.capfloor_pricer, args, t.kwargs)>>)

\* A handler registered by the adapter's user: it calls no backend.  One
\* answers a float, one a string float() cannot read, any other an int.
UserHandlers == {Function("h_int"), Function("h_float"), Function("h_text")}

UserResult(h) ==
    CASE h.name = "h_float" -> PyFloat(3000000)
      [] h.name = "h_text" -> PyStr("n/a")
      [] OTHER -> PyInt(42)

\* handler(adapter, trade, market_state)
Call(h, adapter, trade, market_state) ==
    CASE h.name = "_price_irs" -> price_irs(adapter, trade, market_state)
      [] h.name = "_price_swaption" -> price_swaption(adapter, trade, market_state)
      [] h.name = "_price_capfloor" -> price_capfloor(adapter, trade, market_state)
      [] OTHER -> Returned(UserResult(h), <<>>)

HandlerCall(h, self, trade, market_state) ==
    [func |-> h, adapter |-> self, trade |-> trade, market |-> market_state]

-----------------------------------------------------------------------------
(* PricerAdapter.                                                          *)

\* The registry once the module is imported: the three decorated handlers.
BuiltinRegistry ==
    [k \in BuiltinKinds |->
        IF k = IRSTrade THEN Function("_price_irs")
        ELSE IF k = SwaptionTrade THEN Function("_price_swaption")
        ELSE Function("_price_capfloor")]

\* The class, then its bases' classes depth-first in declaration order.
RECURSIVE Preorder(_, _)
Preorder(cls, k) ==
    LET bases == cls[k].bases
        sub[i \in 0..Len(bases)] ==
            IF i = 0 THEN <<>> ELSE sub[i - 1] \o Preorder(cls, bases[i])
    IN  <<k>> \o sub[Len(bases)]

\* The sequence without the later repeats of a member.
RECURSIVE Dedup(_)
Dedup(q) ==
    IF q = <<>> THEN <<>>
    ELSE LET d == Dedup(SubSeq(q, 1, Len(q) - 1))
         IN  IF q[Len(q)] \in Range(d) THEN d ELSE Append(d, q[Len(q)])

\* A walk of the ancestors depth-first, each kept where it is first met.
ChainDepthFirst(cls, trade_type) == Dedup(Preorder(cls, trade_type))

\* The sequence _resolve_handler walks: trade_type.__mro__.
Chain(cls, trade_type) == cls[trade_type].mro

\* A lookup that keeps walking and answers the last registered handler.
RECURSIVE ResolveLast(_, _, _)
ResolveLast(reg, chain, i) ==
    IF i > Len(chain) THEN None
    ELSE LET handler == Get(reg, chain[i], None)
             later == ResolveLast(reg, chain, i + 1)
         IN  IF later # None THEN later ELSE handler

\* A lookup of the concrete type alone, without its bases.
ResolveExact(reg, chain, i) == Get(reg, chain[i], None)

\* A lookup that stops at the first base that is a key of the registry and
\* answers what is stored there, None included.
RECURSIVE ResolveFirstKey(_, _, _)
ResolveFirstKey(reg, chain, i) ==
    IF i > Len(chain) THEN None
    ELSE IF chain[i] \in DOMAIN reg THEN reg[chain[i]]
    ELSE ResolveFirstKey(reg, chain, i + 1)

\* The loop of _resolve_handler, from position i of the chain.
RECURSIVE ResolveFrom(_, _, _)
ResolveFrom(reg, chain, i) ==
    IF i > Len(chain) THEN None
    ELSE LET handler == Get(reg, chain[i], None)
         IN  IF handler # None THEN handler ELSE ResolveFrom(reg, chain, i + 1)

\* PricerAdapter._resolve_handler(trade_type)
resolve_handler(reg, cls, trade_type) == ResolveFrom(reg, Chain(cls, trade_type), 1)

\* A lookup that keeps what it found under the type it was asked for.
ResolveAndKeep(reg, cls, trade_type) ==
    Put(reg, trade_type, resolve_handler(reg, cls, trade_type))

\* A registry of the instance's own, copied from the built-in handlers.
RegistryOfInstance(reg, self) == [k \in BuiltinKinds |-> reg[k]]

\* The registry an adapter instance resolves against: the class attribute.
RegistryOf(reg, self) == reg

\* A message that names the last base searched instead of the trade's type.
UnsupportedMessageOfBase(trade) == "Unsupported trade type: " \o Object

UnsupportedMessage(trade) == "Unsupported trade type: " \o TypeOf(trade)

\* What _resolve_handler leaves in the registry: it reads it with get.
RegistryAfterResolve(reg, cls, trade_type) == reg

\* PricerAdapter.price after the handler is looked up: the raise, or the
\* handler's call and float() of what it returns.
PriceResolved(handler, ads, self, trade, market_state) ==
    IF handler = None
    THEN [status |-> "raise", value |-> None,
          exc |-> [type |-> "UnsupportedTradeError", arg |-> UnsupportedMessage(trade)],
          handlers |-> <<>>, backends |-> <<>>]
    ELSE LET r == Call(handler, ads[self], trade, market_state)
             called == <<HandlerCall(handler, self, trade, market_state)>>
         IN  IF r.status = "raise"
             THEN [status |-> "raise", value |-> None, exc |-> r.exc,
                   handlers |-> called, backends |-> r.backends]
             ELSE IF ~FloatOk(r.value)
             THEN [status |-> "raise", value |-> None,
                   exc |-> [type |-> FloatErr(r.value), arg |-> "float"],
                   handlers |-> called, backends |-> r.backends]
             ELSE [status |-> "return", value |-> Float(r.value), exc |-> None,
                   handlers |-> called, backends |-> r.backends]

\* PricerAdapter.price(self, trade, market_state): what the call does.
PriceOutcome(reg, cls, ads, self, trade, market_state) ==
    PriceResolved(resolve_handler(RegistryOf(reg, self), cls, TypeOf(trade)),
                  ads, self, trade, market_state)

\* PricerAdapter.__init__(swap_pricer=, swaption_pricer=, capfloor_pricer=):
\* the instance, numbered self.  A missing argument is the default; the
\* cap/floor pricer is `capfloor_pricer or CapFloorPricer()`.
NoArg == [t |-> "absent"]

NewAdapter(self, swap_pricer, swaption_pricer, capfloor_pricer) ==
    [swap_pricer |-> IF swap_pricer = NoArg THEN DefaultSwap ELSE swap_pricer,
     swaption_pricer |->
        IF swaption_pricer = NoArg THEN DefaultSwaption ELSE swaption_pricer,
     capfloor_pricer |->
        IF capfloor_pricer # NoArg /\ capfloor_pricer.truthy
        THEN capfloor_pricer ELSE NewCapFloorPricer(self)]

-----------------------------------------------------------------------------
(* The operations.                                                         *)

\* The threads that call price, and a thread that is in no call.
Threads == 1 .. MaxThreads
Idle == [pc |-> "idle"]

Init ==
    /\ classes = ImportedClasses
    /\ registry = BuiltinRegistry
    /\ requested = BuiltinRegistry
    /\ adapters = <<>>
    /\ made = <<>>
    /\ op = [op |-> "import"]
    /\ calls = [t \in Threads |-> Idle]

\* The name of the next class to be defined, while there is one.
NewKinds ==
    LET n == Cardinality(DOMAIN classes \cap UserKinds)
    IN  IF n < MaxUserKinds THEN {UserKind(n + 1)} ELSE {}

\* The sequences of 1..n distinct members of S.
RECURSIVE SeqsUpTo(_, _)
SeqsUpTo(S, n) ==
    IF n = 0 THEN {<<>>}
    ELSE LET shorter == SeqsUpTo(S, n - 1)
         IN  shorter \cup {Append(q, x) : q \in shorter, x \in S}

DistinctSeqs(S, n) ==
    {q \in SeqsUpTo(S, n) : q # <<>> /\ Cardinality(Range(q)) = Len(q)}

\* class k(*bases): pass  -- the next new class; Python refuses bases that
\* have no consistent linearization.
DefineKind(k, bases) ==
    /\ k \notin DOMAIN classes
    /\ Range(bases) \subseteq DOMAIN classes
    /\ LET mro == Linearize(classes, k, bases) IN
        /\ MroOk(mro)
        /\ classes' = Put(classes, k, [bases |-> bases, mro |-> mro])
    /\ op' = [op |-> "class", kind |-> k]
    /\ UNCHANGED <<registry, requested, adapters, made, calls>>

\* PricerAdapter.register(trade_type)(func)
Register(trade_type, func) ==
    /\ trade_type \in DOMAIN classes
    /\ registry' = Put(registry, trade_type, func)
    /\ requested' = [k \in DOMAIN requested \cup {trade_type} |->
                        IF k = trade_type THEN func ELSE requested[k]]
    /\ op' = [op |-> "register", kind |-> trade_type, func |-> func,
              returned |-> func]
    /\ UNCHANGED <<classes, adapters, made, calls>>

\* PricerAdapter(swap_pricer=, swaption_pricer=, capfloor_pricer=)
Construct(swap_pricer, swaption_pricer, capfloor_pricer) ==
    /\ Len(adapters) < MaxAdapters
    /\ LET self == Len(adapters) + 1 IN
        /\ adapters' = Append(adapters,
                NewAdapter(self, swap_pricer, swaption_pricer, capfloor_pricer))
        /\ op' = [op |-> "init", self |-> self]
    /\ made' = Append(made,
            [args |-> <<swap_pricer, swaption_pricer, capfloor_pricer>>,
             known |-> DOMAIN registry])
    /\ UNCHANGED <<classes, registry, requested, calls>>

\* adapter.price(trade, market_state)
Price(self, trade, market_state) ==
    /\ self \in DOMAIN adapters
    /\ op' = [op |-> "price", self |-> self, trade |-> trade, market |-> market_state,
              out |-> PriceOutcome(registry, classes, adapters, self, trade, market_state)]
    /\ registry' = RegistryAfterResolve(RegistryOf(registry, self), classes, TypeOf(trade))
    /\ UNCHANGED <<classes, requested, adapters, made, calls>>

\* The same call, a step at a time, in thread t.  The call is entered ...
Enter(t, self, trade, market_state) ==
    /\ calls[t].pc = "idle"
    /\ self \in DOMAIN adapters
    /\ calls' = [calls EXCEPT ![t] = [pc |-> "resolve", self |-> self,
                                      trade |-> trade, market |-> market_state]]
    /\ UNCHANGED <<classes, registry, requested, adapters, made, op>>

\* ... handler = self._resolve_handler(type(trade)) ...
Resolve(t) ==
    LET f == calls[t] IN
    /\ f.pc = "resolve"
    /\ calls' = [calls EXCEPT ![t] =
            [pc |-> "invoke", self |-> f.self, trade |-> f.trade, market |-> f.market,
             handler |-> resolve_handler(RegistryOf(registry, f.self), classes,
                                         TypeOf(f.trade))]]
    /\ registry' = RegistryAfterResolve(RegistryOf(registry, f.self), classes,
                                        TypeOf(f.trade))
    /\ UNCHANGED <<classes, requested, adapters, made, op>>

\* ... the raise, or float(handler(self, trade, market_state)) ...
Invoke(t) ==
    LET f == calls[t] IN
    /\ f.pc = "invoke"
    /\ calls' = [calls EXCEPT ![t] =
            [pc |-> "done", self |-> f.self, trade |-> f.trade, market |-> f.market,
             out |-> PriceResolved(f.handler, adapters, f.self, f.trade, f.market)]]
    /\ UNCHANGED <<classes, registry, requested, adapters, made, op>>

\* ... and the caller has the outcome.
Leave(t) ==
    LET f == calls[t] IN
    /\ f.pc = "done"
    /\ calls' = [calls EXCEPT ![t] = Idle]
    /\ op' = [op |-> "price", self |-> f.self, trade |-> f.trade, market |-> f.market,
              out |-> f.out]
    /\ UNCHANGED <<classes, registry, requested, adapters, made>>

-----------------------------------------------------------------------------
(* Resolution: every hierarchy of up to MaxUserKinds new classes over      *)
(* object and IRSTrade, each class registered with a handler of its own or *)
(* not at all, priced by one adapter.                                      *)

HandlerFor(k) == Function("price_" \o k)

ResolveBases == DistinctSeqs((DOMAIN classes \ BuiltinKinds) \cup {IRSTrade}, MaxBases)

NextResolve ==
    \/ \E k \in NewKinds, bases \in ResolveBases : DefineKind(k, bases)
    \/ \E k \in DOMAIN classes \ BuiltinKinds : Register(k, HandlerFor(k))
    \/ adapters = <<>> /\ Construct(NoArg, NoArg, NoArg)
    \/ \E self \in DOMAIN adapters, k \in DOMAIN classes \ {SwaptionTrade, CapFloorTrade} :
          Price(self, TradeOf(classes, k), FullMarket)

SpecResolve == Init /\ [][NextResolve]_vars

-----------------------------------------------------------------------------
(* The adapter in use: new classes, derived from object or from IRSTrade,  *)
(* are defined, handlers (or None) are registered and registered again,    *)
(* adapters are made, with the default backends or with spies, and price.  *)

Next ==
    \/ \E bases \in {<<Object>>, <<IRSTrade>>} : DefineKind(UserKind(1), bases)
    \/ \E k \in DOMAIN classes \ {Object, SwaptionTrade, CapFloorTrade},
          func \in UserHandlers \cup {None} : Register(k, func)
    \/ Construct(NoArg, NoArg, NoArg)
    \/ Construct(SpySwap(Len(adapters) + 1), SpySwaption(Len(adapters) + 1),
                 SpyCapFloor(Len(adapters) + 1))
    \/ \E self \in DOMAIN adapters, k \in DOMAIN classes \ {Object} :
          Price(self, TradeOf(classes, k), FullMarket)

Spec == Init /\ [][Next]_vars

-----------------------------------------------------------------------------
(* The built-in handlers and the injected backends: adapters made with     *)
(* every choice of constructor arguments price the built-in trades against *)
(* market states that hold or lack the curves and the surfaces.            *)

BackendTrades ==
    {TradeOf(classes, k) : k \in BuiltinKinds}
      \cup {[kind |-> CapFloorTrade, attrs |-> CapFloorFields(EmptyMap)]}

NextBackends ==
    \/ \E swap_pricer \in {NoArg, SpySwap(Len(adapters) + 1)},
          swaption_pricer \in {NoArg, SpySwaption(Len(adapters) + 1)},
          capfloor_pricer \in {NoArg, SpyCapFloor(Len(adapters) + 1),
                               EmptySpyCapFloor(Len(adapters) + 1)} :
          Construct(swap_pricer, swaption_pricer, capfloor_pricer)
    \/ \E self \in DOMAIN adapters, trade \in BackendTrades, market_state \in Markets :
          Price(self, trade, market_state)

SpecBackends == Init /\ [][NextBackends]_vars

-----------------------------------------------------------------------------
(* Threads: a class is derived, handlers are registered while no call is   *)
(* running, one adapter is made, and then the threads' price calls run a   *)
(* step at a time, in any order.                                           *)

Quiet == \A t \in Threads : calls[t] = Idle

ThreadInputs ==
    {<<TradeOf(classes, IRSTrade), FullMarket>>,
     <<TradeOf(classes, IRSTrade), EmptyMarket>>,
     <<TradeOf(classes, SwaptionTrade), EmptyMarket>>}
      \cup {<<TradeOf(classes, k), FullMarket>> : k \in DOMAIN classes \cap UserKinds}

NextConc ==
    \/ \E bases \in {<<Object>>, <<IRSTrade>>} : DefineKind(UserKind(1), bases)
    \/ \E k \in DOMAIN classes \ {Object, SwaptionTrade, CapFloorTrade},
          func \in {Function("_price_irs"), None} : Quiet /\ Register(k, func)
    \/ adapters = <<>> /\ Construct(NoArg, NoArg, NoArg)
    \/ \E t \in Threads, self \in DOMAIN adapters, i \in ThreadInputs :
          Enter(t, self, i[1], i[2])
    \/ \E t \in Threads : Resolve(t)
    \/ \E t \in Threads : Invoke(t)
    \/ \E t \in Threads : Leave(t)

SpecConc == Init /\ [][NextConc]_vars

-----------------------------------------------------------------------------
(* What the claims speak of.                                               *)

IsPrice == op.op = "price"

\* The kind is registered with a handler (a callable: Handler, line 163).
HasHandler(k) == k \in DOMAIN registry /\ registry[k] # None

\* The kind and its ancestors, from the class statements' bases.
RECURSIVE AncestorsOf(_)
AncestorsOf(k) == {k} \cup UNION {AncestorsOf(classes[k].bases[i]) : i \in DOMAIN classes[k].bases}

Pos(chain, k) == CHOOSE i \in DOMAIN chain : chain[i] = k

\* The float that equals number x.
SameNumber(x, f) == f.t = "float" /\ f.c = (IF x.t = "int" THEN 100 * x.v ELSE x.c)

Unsupported(out) == out.status = "raise" /\ out.exc.type = "UnsupportedTradeError"

\* The call price makes of handler h.
TheCall(h) == <<HandlerCall(h, op.self, op.trade, op.market)>>

-----------------------------------------------------------------------------
\* C1: whatever has been registered, price of a trade whose own kind is
\* registered with handler H calls H once, with (the adapter, the trade,
\* the market state), calls no other handler, and returns the number H
\* returned, as a float.
DispatchIdentity ==
    IsPrice /\ HasHandler(TypeOf(op.trade)) =>
        LET H == registry[TypeOf(op.trade)]
            r == Call(H, adapters[op.self], op.trade, op.market)
        IN  /\ op.out.handlers = TheCall(H)
            /\ r.status = "return" /\ FloatOk(r.value) =>
                  op.out.status = "return" /\ SameNumber(r.value, op.out.value)

\* A second adapter priced a trade of a new class derived from IRSTrade and
\* registered with a handler that answers the int 42: it returned 42.0.
DispatchIdentityWitness ==
    /\ IsPrice /\ op.self = 2
    /\ TypeOf(op.trade) = UserKind(1)
    /\ IRSTrade \in Range(classes[UserKind(1)].mro)
    /\ HasHandler(UserKind(1)) /\ registry[UserKind(1)] = Function("h_int")
    /\ op.out.status = "return" /\ op.out.value = PyFloat(4200)

\* C2: price of a trade whose kind is not registered, and none of whose
\* ancestors is, raises UnsupportedTradeError with the kind's own name in
\* the message, and calls no handler and no backend.
UnsupportedNamesConcreteKind ==
    IsPrice /\ AncestorsOf(TypeOf(op.trade)) \cap DOMAIN registry = {} =>
        /\ Unsupported(op.out)
        /\ op.out.exc.arg = "Unsupported trade type: " \o TypeOf(op.trade)
        /\ \A k \in AncestorsOf(TypeOf(op.trade)) \ {TypeOf(op.trade)} :
              op.out.exc.arg # "Unsupported trade type: " \o k
        /\ op.out.handlers = <<>> /\ op.out.backends = <<>>

\* A trade of a class with an ancestor besides object, none registered, was
\* priced.
UnsupportedWitness ==
    /\ IsPrice
    /\ Cardinality(AncestorsOf(TypeOf(op.trade))) >= 3
    /\ AncestorsOf(TypeOf(op.trade)) \cap DOMAIN registry = {}
    /\ Unsupported(op.out)

\* C3: when a trade's kind T is not registered and exactly one kind S of
\* its ancestry is registered, with handler H, price calls H and does not
\* raise UnsupportedTradeError; it returns when H returns a number.
AncestryFallback ==
    IsPrice =>
        LET T == TypeOf(op.trade) IN
        \A S \in AncestorsOf(T) \ {T} :
            {k \in AncestorsOf(T) : k \in DOMAIN registry} = {S} /\ HasHandler(S) =>
                LET r == Call(registry[S], adapters[op.self], op.trade, op.market)
                IN  /\ op.out.handlers = TheCall(registry[S])
                    /\ ~Unsupported(op.out)
                    /\ r.status = "return" /\ FloatOk(r.value) =>
                          op.out.status = "return"

\* A trade of an unregistered class was priced by the handler of the one
\* registered ancestor, a new class itself.
AncestryFallbackWitness ==
    /\ IsPrice
    /\ TypeOf(op.trade) = UserKind(2)
    /\ {k \in AncestorsOf(UserKind(2)) : k \in DOMAIN registry} = {UserKind(1)}
    /\ op.out.status = "return"
    /\ op.out.handlers = TheCall(HandlerFor(UserKind(1)))


\* The kinds of the trade's ancestry that are registered with a handler.
HandledIn(T) == {k \in AncestorsOf(T) : HasHandler(k)}

FirstHandled(chain) ==
    LET hits == {i \in DOMAIN chain : HasHandler(chain[i])}
    IN  chain[CHOOSE i \in hits : \A j \in hits : i <= j]

\* C5 as stated: the handler called is the first registered one in the
\* depth-first walk of the ancestors, duplicates removed.
DepthFirstAsStated ==
    IsPrice /\ HandledIn(TypeOf(op.trade)) # {} =>
        op.out.handlers =
            TheCall(registry[FirstHandled(ChainDepthFirst(classes, TypeOf(op.trade)))])

\* C5, amended: the chain searched is the class's method resolution
\* order: the concrete kind first, then its ancestors, each once, every
\* kind before its own bases and the bases of a kind in their declaration
\* order; the handler called is the first registered one in that order,
\* and when none is registered UnsupportedTradeError is raised.
SearchOrder ==
    IsPrice =>
        LET T == TypeOf(op.trade)
            chain == Chain(classes, T)
        IN  /\ chain[1] = T
            /\ Range(chain) = AncestorsOf(T)
            /\ Len(chain) = Cardinality(AncestorsOf(T))
            /\ \A k \in Range(chain) :
                  LET bases == classes[k].bases IN
                  /\ \A i \in DOMAIN bases : Pos(chain, k) < Pos(chain, bases[i])
                  /\ \A i \in DOMAIN bases, j \in DOMAIN bases :
                        i < j => Pos(chain, bases[i]) < Pos(chain, bases[j])
            /\ IF HandledIn(T) = {} THEN Unsupported(op.out)
               ELSE op.out.handlers = TheCall(registry[FirstHandled(chain)])

\* A trade of a class with two bases whose depth-first walk meets a
\* registered shared ancestor before a registered base was priced.
SearchOrderWitness ==
    /\ IsPrice
    /\ Len(classes[TypeOf(op.trade)].bases) = 2
    /\ HandledIn(TypeOf(op.trade)) # {}
    /\ FirstHandled(ChainDepthFirst(classes, TypeOf(op.trade)))
          # FirstHandled(classes[TypeOf(op.trade)].mro)
    /\ op.out.status = "return"


\* C6: the registry holds, for every kind, the handler of the most recent
\* register call for it, every other registration being as it was; register
\* returns the handler it was given; and price of a trade whose own kind is
\* registered calls the handler of the most recent register call for that
\* kind, and no earlier one.
LastRegistrationWins ==
    /\ DOMAIN registry = DOMAIN requested
    /\ \A k \in DOMAIN requested : registry[k] = requested[k]
    /\ op.op = "register" =>
          op.returned = op.func /\ registry[op.kind] = op.func
    /\ IsPrice /\ TypeOf(op.trade) \in DOMAIN requested
          /\ requested[TypeOf(op.trade)] # None =>
          op.out.handlers = TheCall(requested[TypeOf(op.trade)])

\* IRSTrade, registered at import with _price_irs, was registered again
\* with another handler, and a swap was then priced by that handler.
LastRegistrationWitness ==
    /\ IsPrice
    /\ TypeOf(op.trade) = IRSTrade
    /\ requested[IRSTrade] = Function("h_float")
    /\ op.out.handlers = TheCall(Function("h_float"))
    /\ op.out.status = "return"

\* C7: every adapter instance, made before or after a register call,
\* resolves every kind against the one registry; so a kind registered after
\* import is priced, by every instance, with the handler registered for it.
RegistrationIsGlobal ==
    /\ \A self \in DOMAIN adapters, k \in DOMAIN classes :
          /\ resolve_handler(RegistryOf(registry, self), classes, k)
                = resolve_handler(registry, classes, k)
          /\ k \notin BuiltinKinds /\ HasHandler(k) =>
                PriceOutcome(registry, classes, adapters, self,
                             TradeOf(classes, k), FullMarket).handlers
                   = <<HandlerCall(registry[k], self, TradeOf(classes, k), FullMarket)>>
    /\ IsPrice /\ HasHandler(TypeOf(op.trade)) =>
          op.out.handlers = TheCall(registry[TypeOf(op.trade)])

\* An adapter made before a new kind was registered priced a trade of that
\* kind, and an adapter made after the registration exists as well.
RegistrationIsGlobalWitness ==
    /\ IsPrice
    /\ TypeOf(op.trade) \notin BuiltinKinds
    /\ TypeOf(op.trade) \notin made[op.self].known
    /\ \E other \in DOMAIN adapters : TypeOf(op.trade) \in made[other].known
    /\ op.out.status = "return"
    /\ op.out.handlers = TheCall(registry[TypeOf(op.trade)])


\* The arguments the instance that priced was constructed with.
Given == made[op.self].args

\* The price call did exactly this backend call and returned its result.
Forwarded(backend, args, kwargs) ==
    /\ op.out.backends = <<BackendCall(backend, args, kwargs)>>
    /\ op.out.status = "return"
    /\ SameNumber(BackendResult(backend, args, kwargs), op.out.value)

\* C8 as stated: price on an adapter constructed with a backend of the
\* caller's calls that backend, once, with (notional, fixed_rate, start,
\* end, curves[curve_id]) for a swap, (trade_dict, market_data) for a
\* swaption and (cap, curves[curve_id], vol_surfaces[vol_surface_id]) and
\* the trade's kwargs for a cap/floor, and returns its result as a float.
InjectedBackendsHonored ==
    IsPrice =>
        LET t == op.trade.attrs
            m == op.market
        IN  /\ TypeOf(op.trade) = IRSTrade /\ Given[1] # NoArg
                  /\ t.curve_id \in DOMAIN m.curves =>
                  Forwarded(Given[1],
                            <<t.notional, t.fixed_rate, t.start, t.end,
                              m.curves[t.curve_id]>>, EmptyMap)
            /\ TypeOf(op.trade) = SwaptionTrade /\ Given[2] # NoArg =>
                  Forwarded(Given[2], <<t.trade_dict, m.market_data>>, EmptyMap)
            /\ TypeOf(op.trade) = CapFloorTrade /\ Given[3] # NoArg
                  /\ t.curve_id \in DOMAIN m.curves
                  /\ t.vol_surface_id \in DOMAIN m.vol_surfaces =>
                  Forwarded(Given[3],
                            <<t.cap, m.curves[t.curve_id],
                              m.vol_surfaces[t.vol_surface_id]>>, t.kwargs)

\* What does hold of the injected backends: the same, for a cap/floor
\* pricer that is true in a boolean test.
InjectedBackendsHonoredWhenTrue ==
    IsPrice =>
        LET t == op.trade.attrs
            m == op.market
        IN  /\ TypeOf(op.trade) = IRSTrade /\ Given[1] # NoArg
                  /\ t.curve_id \in DOMAIN m.curves =>
                  Forwarded(Given[1],
                            <<t.notional, t.fixed_rate, t.start, t.end,
                              m.curves[t.curve_id]>>, EmptyMap)
            /\ TypeOf(op.trade) = SwaptionTrade /\ Given[2] # NoArg =>
                  Forwarded(Given[2], <<t.trade_dict, m.market_data>>, EmptyMap)
            /\ TypeOf(op.trade) = CapFloorTrade /\ Given[3] # NoArg
                  /\ Given[3].truthy
                  /\ t.curve_id \in DOMAIN m.curves
                  /\ t.vol_surface_id \in DOMAIN m.vol_surfaces =>
                  Forwarded(Given[3],
                            <<t.cap, m.curves[t.curve_id],
                              m.vol_surfaces[t.vol_surface_id]>>, t.kwargs)

KeyError(out, key) ==
    /\ out.status = "raise"
    /\ out.exc = [type |-> "KeyError", arg |-> key]
    /\ out.backends = <<>>

\* C10: pricing a swap whose curve_id is not in curves raises KeyError for
\* that id; pricing a cap/floor raises KeyError for its curve_id when that
\* is not in curves, whatever the surfaces, and for its vol_surface_id when
\* the curve is there and the surface is not; no backend is called then;
\* pricing a swaption always returns, an empty market state included.
MissingIdentifiers ==
    IsPrice =>
        LET t == op.trade.attrs
            m == op.market
        IN  /\ TypeOf(op.trade) = IRSTrade /\ t.curve_id \notin DOMAIN m.curves =>
                  KeyError(op.out, t.curve_id)
            /\ TypeOf(op.trade) = CapFloorTrade /\ t.curve_id \notin DOMAIN m.curves =>
                  KeyError(op.out, t.curve_id)
            /\ TypeOf(op.trade) = CapFloorTrade /\ t.curve_id \in DOMAIN m.curves
                  /\ t.vol_surface_id \notin DOMAIN m.vol_surfaces =>
                  KeyError(op.out, t.vol_surface_id)
            /\ TypeOf(op.trade) = SwaptionTrade =>
                  op.out.status = "return" /\ Len(op.out.backends) = 1

\* A cap/floor was priced against a market state with neither its curve
\* nor its surface: the KeyError names the curve.
MissingIdentifiersWitness ==
    /\ IsPrice
    /\ TypeOf(op.trade) = CapFloorTrade
    /\ op.market = EmptyMarket
    /\ KeyError(op.out, "usd_3m")

\* The adapters as their constructors made them.
AsConstructed ==
    [i \in DOMAIN made |->
        NewAdapter(i, made[i].args[1], made[i].args[2], made[i].args[3])]

\* The outcome of the call of frame f made alone, against the registry as
\* the register calls left it and the adapters as they were constructed.
Alone(f) == PriceOutcome(requested, classes, AsConstructed, f.self, f.trade, f.market)

\* C9: with the built-in handlers, whatever price calls have run or are
\* running, and however their steps interleave while no register call runs,
\* the registry is what the register calls left and the adapters' backends
\* are what the constructors set, and every call that has its outcome -- a
\* float, UnsupportedTradeError or KeyError -- has the outcome of that call
\* made alone with no price call before it.
PriceIsReadOnly ==
    /\ registry = requested
    /\ adapters = AsConstructed
    /\ \A t \in Threads :
          /\ calls[t].pc = "done"
          /\ \/ calls[t].out.status = "return"
             \/ calls[t].out.exc.type \in {"UnsupportedTradeError", "KeyError"}
          => calls[t].out = Alone(calls[t])

\* Two calls ran interleaved: one has returned a float and the other has
\* failed, after an earlier call failed with KeyError.
PriceIsReadOnlyWitness ==
    /\ IsPrice
    /\ op.out.status = "raise"
    /\ op.out.exc.type = "KeyError"
    /\ \E t, u \in Threads :
          /\ calls[t].pc = "done" /\ calls[t].out.status = "return"
          /\ calls[u].pc = "done" /\ Unsupported(calls[u].out)

\* C11: no key ever leaves the registry, and yet a kind T whose entry is
\* None is priced as if T were not registered: price skips T and calls the
\* handler of the first kind after T in T's chain whose entry is not None,
\* and when there is none it raises UnsupportedTradeError naming T and
\* calls no handler.
NoneEntrySkipped ==
    /\ BuiltinKinds \cup DOMAIN requested \subseteq DOMAIN registry
    /\ IsPrice /\ TypeOf(op.trade) \in DOMAIN registry
         /\ registry[TypeOf(op.trade)] = None =>
          LET chain == Chain(classes, TypeOf(op.trade))
              later == {i \in 2 .. Len(chain) : HasHandler(chain[i])}
          IN  IF later = {}
              THEN /\ Unsupported(op.out)
                   /\ op.out.exc.arg = "Unsupported trade type: " \o TypeOf(op.trade)
                   /\ op.out.handlers = <<>>
              ELSE /\ ~Unsupported(op.out)
                   /\ op.out.handlers =
                         TheCall(registry[chain[CHOOSE i \in later :
                                                   \A j \in later : i <= j]])

\* IRSTrade, which was priced by _price_irs after import, is still a key of
\* the registry, with None, and price of an IRSTrade raised
\* UnsupportedTradeError.
NoneEntrySkippedWitness ==
    /\ IsPrice
    /\ TypeOf(op.trade) = IRSTrade
    /\ IRSTrade \in DOMAIN registry
    /\ registry[IRSTrade] = None
    /\ requested[IRSTrade] = None
    /\ Unsupported(op.out)

=============================================================================
